---------------------------- MODULE Spec2Model ----------------------------
(***************************************************************************)
(* A model of the p2p transaction-gossip simulation                        *)
(* (src/simulation/src/main.rs): main constructs NumNodes nodes, node 0    *)
(* broadcasts one transaction, and then every node's event loop consumes   *)
(* swarm events and ingests gossip messages into its own DistributedTable. *)
(* Specification Spec.                                                     *)
(*                                                                         *)
(* The direct-connection variant (src/src/main.rs) is a second program: a  *)
(* listener whose connection handlers store the transactions they read in  *)
(* one shared NodeState.  Specification SpecDirect.  Each specification    *)
(* leaves the other program's variables as Init sets them.                 *)
(*                                                                         *)
(* Strings that the code inspects character by character (the base64       *)
(* payload) are sequences of one-character strings; the hex digest the     *)
(* code builds with format!("{:02x}") is a TLA+ string.                    *)
(***************************************************************************)
EXTENDS Naturals, Sequences, FiniteSets, TLC

(***************************************************************************)
(* Bounds of the model.                                                    *)
(***************************************************************************)
\* Swarm events the environment (peers outside this process, mDNS, the
\* swarm itself) hands to the event loops in one run.
MaxEvents == 2

\* Connections of the direct variant in one run, accepted or dialled.
MaxTasks == 3

\* Reads the connection handlers of the direct variant make in one run.
MaxReads == 1

(***************************************************************************)
(* Program constants.                                                      *)
(***************************************************************************)
\* for _ in 0..4
NumNodes == 4

Nodes == 0 .. (NumNodes - 1)

\* The node whose broadcast_transaction main calls: nodes[0].
Broadcaster == 0

\* The nodes of this process that may be meshed with the broadcaster on the
\* topic when it publishes; node 3 is one that is not.
MeshCandidates == { 1, 2 }

(***************************************************************************)
(* base64 (the standard alphabet, canonical padding).                      *)
(***************************************************************************)
B64Chars ==
    << "A","B","C","D","E","F","G","H","I","J","K","L","M",
       "N","O","P","Q","R","S","T","U","V","W","X","Y","Z",
       "a","b","c","d","e","f","g","h","i","j","k","l","m",
       "n","o","p","q","r","s","t","u","v","w","x","y","z",
       "0","1","2","3","4","5","6","7","8","9","+","/" >>

B64Set == { B64Chars[i] : i \in 1..64 }

\* The value of each symbol: its place in the alphabet.
B64Index == [c \in B64Set |-> (CHOOSE i \in 1..64 : B64Chars[i] = c) - 1]

IsB64Char(c) == c \in B64Set

B64Val(c) == B64Index[c]

PadCount(s) ==
    IF Len(s) >= 2 /\ s[Len(s)] = "=" /\ s[Len(s) - 1] = "=" THEN 2
    ELSE IF Len(s) >= 1 /\ s[Len(s)] = "=" THEN 1
    ELSE 0

\* The input is whole quads, every symbol before the padding is of the
\* alphabet, and the bits the padding cuts off are zero.
Base64Valid(s) ==
    /\ Len(s) % 4 = 0
    /\ \A i \in 1..(Len(s) - PadCount(s)) : IsB64Char(s[i])
    /\ PadCount(s) = 1 => B64Val(s[Len(s) - 1]) % 4 = 0
    /\ PadCount(s) = 2 => B64Val(s[Len(s) - 2]) % 16 = 0

Sextet(s, i) == IF s[i] = "=" THEN 0 ELSE B64Val(s[i])

QuadBytes(s, q) ==
    LET v == Sextet(s, 4 * q - 3) * 262144 + Sextet(s, 4 * q - 2) * 4096
             + Sextet(s, 4 * q - 1) * 64 + Sextet(s, 4 * q)
    IN  << v \div 65536, (v \div 256) % 256, v % 256 >>

RECURSIVE QuadsBytes(_, _)
QuadsBytes(s, q) ==
    IF q = 0 THEN << >> ELSE QuadsBytes(s, q - 1) \o QuadBytes(s, q)

\* base64::decode: Ok(bytes) or Err.
Base64Decode(s) ==
    IF Base64Valid(s)
    THEN [ok |-> TRUE,
          bytes |-> SubSeq(QuadsBytes(s, Len(s) \div 4), 1,
                           3 * (Len(s) \div 4) - PadCount(s))]
    ELSE [ok |-> FALSE, bytes |-> << >>]

ByteAt(bytes, i) == IF i <= Len(bytes) THEN bytes[i] ELSE 0

GroupChars(bytes, g) ==
    LET v == ByteAt(bytes, 3 * g - 2) * 65536 + ByteAt(bytes, 3 * g - 1) * 256
             + ByteAt(bytes, 3 * g)
        full == << B64Chars[(v \div 262144) + 1], B64Chars[((v \div 4096) % 64) + 1],
                   B64Chars[((v \div 64) % 64) + 1], B64Chars[(v % 64) + 1] >>
        have == Len(bytes) - 3 * (g - 1)
    IN  IF have >= 3 THEN full
        ELSE IF have = 2 THEN << full[1], full[2], full[3], "=" >>
        ELSE << full[1], full[2], "=", "=" >>

RECURSIVE GroupsChars(_, _)
GroupsChars(bytes, g) ==
    IF g = 0 THEN << >> ELSE GroupsChars(bytes, g - 1) \o GroupChars(bytes, g)

\* base64::encode
Base64Encode(bytes) == GroupsChars(bytes, (Len(bytes) + 2) \div 3)

(***************************************************************************)
(* The hash key: .iter().map(|b| format!("{:02x}", b)).collect()           *)
(***************************************************************************)
HexDigits ==
    << "0","1","2","3","4","5","6","7","8","9","a","b","c","d","e","f" >>

\* format!("{:x}", b): no leading zero.
ByteHexUnpadded(b) ==
    IF b < 16 THEN HexDigits[b + 1]
    ELSE HexDigits[(b \div 16) + 1] \o HexDigits[(b % 16) + 1]

\* format!("{:02x}", b)
ByteHex(b) == HexDigits[(b \div 16) + 1] \o HexDigits[(b % 16) + 1]

RECURSIVE HexEncode(_)
HexEncode(bytes) ==
    IF bytes = << >> THEN "" ELSE ByteHex(Head(bytes)) \o HexEncode(Tail(bytes))


(***************************************************************************)
(* Values the model draws its inputs from.                                 *)
(***************************************************************************)
\* peer_id.to_string() of node n.
PeerIds == << "peer0", "peer1", "peer2", "peer3" >>

PeerIdOf(n) == PeerIds[n + 1]

\* The sender strings a received envelope may carry.
Senders == { "peerA", "peerB" }

\* as_secs() of the sender's clock.
Timestamps == { 1, 2 }

\* SystemTime::now() of the broadcaster, in seconds since the epoch.
Now == 2

\* tx.message_data() of the transfer that broadcast_transaction signs.
TxBytes == { << 1, 2, 3 >>, << 255 >> }

\* The transaction strings an envelope of a remote peer may carry: two that
\* are base64 (of 01 02 03, of ab cd) and one that is not.
Payloads ==
    { << "A", "Q", "I", "D" >>, << "q", "8", "0", "=" >>, << "A", "!", "I", "D" >> }

\* serde_json::to_string(&TransactionMessage): a JSON object is the
\* function from its field names to their values.
Envelope(t, s, ts) == [transaction |-> t, sender |-> s, timestamp |-> ts]

\* Bytes that are no JSON object of the three fields: text that is not
\* JSON at all, and an object without its timestamp.
GarbageData == [raw |-> "garbage"]

TruncatedData == [transaction |-> << "A", "Q", "I", "D" >>, sender |-> "peerA"]

\* A copy of the broadcaster's envelope that a remote peer publishes under
\* an earlier timestamp: the sender field is a string the publisher chooses.
ReplayData ==
    { Envelope(Base64Encode(b), PeerIdOf(Broadcaster), ts) :
          b \in TxBytes, ts \in Timestamps \ { Now } }

ExternalData ==
    { Envelope(t, s, ts) : t \in Payloads, s \in Senders, ts \in Timestamps }
        \cup ReplayData \cup { GarbageData, TruncatedData }

\* Every transaction string a message of the model carries, and what
\* base64::decode gives for each.
Transactions == Payloads \cup { Base64Encode(b) : b \in TxBytes }

Decoded == [t \in Transactions |-> Base64Decode(t)]

\* The peers outside this process that publish on the topic.
Sources == Senders

\* gossipsub::Message: the published bytes and the peer that published them.
Message(d, src) == [data |-> d, source |-> src]

NoData == [raw |-> "none"]

\* serde_json::from_slice::<TransactionMessage>(&message.data)
FromSlice(d) ==
    IF { "transaction", "sender", "timestamp" } \subseteq DOMAIN d
    THEN [ok |-> TRUE,
          msg |-> [transaction |-> d.transaction, sender |-> d.sender,
                   timestamp |-> d.timestamp]]
    ELSE [ok |-> FALSE, msg |-> NoData]

(***************************************************************************)
(* DistributedTable: two HashMaps, each a function on the keys it holds.   *)
(***************************************************************************)
EmptyMap == [k \in {} |-> << >>]

\* The list keyed by the peer the message came from.
TableKeyOrigin(message, msg) == message.source

\* tx_msg.sender.clone(): the key of the per-sender list.
TableKey(message, msg) == msg.sender

\* An update computed from an empty table: what the table held is lost.
TableAppendLost(p, s, t) == s :> << t >>

\* insert(0, transaction) for push(transaction).
TableAppendFront(p, s, t) ==
    IF s \in DOMAIN p THEN [p EXCEPT ![s] = << t >> \o @] ELSE p @@ (s :> << t >>)

\* A push that skips a transaction the sender's list already holds.
TableAppendOnce(p, s, t) ==
    IF s \in DOMAIN p
    THEN IF \E i \in 1..Len(p[s]) : p[s][i] = t THEN p
         ELSE [p EXCEPT ![s] = Append(@, t)]
    ELSE p @@ (s :> << t >>)

\* The push left out.
TableAppendNone(p, s, t) == p

\* table.peers.entry(sender).or_default().push(transaction)
TableAppend(p, s, t) ==
    IF s \in DOMAIN p THEN [p EXCEPT ![s] = Append(@, t)] ELSE p @@ (s :> << t >>)

\* An index rebuilt around the new entry.
TableInsertOnly(m, h, t) == h :> t

\* table.transactions.insert(hash, transaction)
TableInsert(m, h, t) ==
    IF h \in DOMAIN m THEN [m EXCEPT ![h] = t] ELSE m @@ (h :> t)

\* unwrap_or_default for unwrap.
UnwrapNeverPanics(r) == FALSE

\* Result::unwrap on the decode: panics on Err.
UnwrapPanics(r) == ~r.ok

(***************************************************************************)
(* State.                                                                  *)
(***************************************************************************)
VARIABLES
    mainPc,        \* where main is: "create", "broadcast", "join", "run",
                   \* "err_setup", "err_blockhash", "err_clock",
                   \* "err_publish" (main returned that Err), "panicked"
    created,       \* nodes constructed so far
    loop,          \* per node: "none", "idle" (future built, never polled),
                   \* "running", "terminated"
    peers,         \* per node: DistributedTable.peers
    transactions,  \* per node: DistributedTable.transactions
    mutex,         \* per node: the table's Mutex, "free" or "poisoned"
    inflight,      \* per node: published messages the channel has yet to
                   \* hand to that node's swarm
    meshed,        \* the nodes the broadcast was published to
    seen,          \* per node: the envelopes its loop parsed, in order
    extEvents,     \* events the environment has produced
    lastEvent      \* the kind of the event consumed last, and by which node

\* The direct variant.
VARIABLES
    directMain,         \* where its main is: "start", "accept", "exited"
    spawned,            \* tasks spawned so far; task k serves connection k
    taskPc,             \* per task: "none"; connect_to_peer at "connect",
                        \* "peer_lock", "peer_check", "peer_push",
                        \* "peer_unlock", "failed"; handle_connection at
                        \* "read", "store_lock", "store", "closed"
    taskAddr,           \* per task: the address connect_to_peer was given
    taskTx,             \* per task: the transaction its handler has parsed
    stateLock,          \* the task that holds the Mutex of NodeState, or 0
    stateTransactions,  \* NodeState.transactions
    statePeers,         \* NodeState.peers
    reads,              \* reads made so far
    lastSend            \* the last tx.send: the transaction, the task, the
                        \* other connections open then, the receivers the
                        \* channel gave it to

simVars == << mainPc, created, loop, peers, transactions, mutex, inflight,
              meshed, seen, extEvents, lastEvent >>

directVars == << directMain, spawned, taskPc, taskAddr, taskTx, stateLock,
                 stateTransactions, statePeers, reads, lastSend >>

vars == << simVars, directVars >>

Tasks == 1 .. MaxTasks

\* The addresses connect_to_peer is called with.
Addrs == { "10.0.0.2:8000", "10.0.0.3:8000" }

NoAddr == "none"

\* struct Transaction
Transaction(f, a) == [from |-> f, to |-> "carol", amount |-> a, timestamp |-> 1]

NoTransaction == [from |-> "none"]

\* What serde_json::from_slice::<Transaction> gives Ok for.
Received == { Transaction("alice", 1), Transaction("bob", 2) }

table == << peers, transactions >>

Init ==
    /\ mainPc = "create"
    /\ created = 0
    /\ loop = [n \in Nodes |-> "none"]
    /\ peers = [n \in Nodes |-> EmptyMap]
    /\ transactions = [n \in Nodes |-> EmptyMap]
    /\ mutex = [n \in Nodes |-> "free"]
    /\ inflight = [n \in Nodes |-> << >>]
    /\ meshed = {}
    /\ seen = [n \in Nodes |-> << >>]
    /\ extEvents = 0
    /\ lastEvent = [seq |-> 0, node |-> 0, kind |-> "none"]
    /\ directMain = "start"
    /\ spawned = 0
    /\ taskPc = [k \in Tasks |-> "none"]
    /\ taskAddr = [k \in Tasks |-> NoAddr]
    /\ taskTx = [k \in Tasks |-> NoTransaction]
    /\ stateLock = 0
    /\ stateTransactions = EmptyMap
    /\ statePeers = << >>
    /\ reads = 0
    /\ lastSend = [task |-> 0, tx |-> NoTransaction, others |-> {}, reached |-> {}]

(***************************************************************************)
(* main and Node::new                                                      *)
(***************************************************************************)
\* Node::new returns Ok((node, event_loop)): the table is empty and the
\* event loop is a future nobody has polled.
NodeNewOk ==
    /\ UNCHANGED directVars
    /\ mainPc = "create"
    /\ created < NumNodes
    /\ loop' = [loop EXCEPT ![created] = "idle"]
    /\ created' = created + 1
    /\ mainPc' = IF created + 1 = NumNodes THEN "broadcast" ELSE "create"
    /\ UNCHANGED << peers, transactions, mutex, inflight, meshed, seen,
                    extEvents, lastEvent >>

\* One of the ? in Node::new (noise config, Gossipsub::new, subscribe, mDNS,
\* listen_on) returns Err, and main's ? returns it.
NodeNewErr ==
    /\ UNCHANGED directVars
    /\ mainPc = "create"
    /\ created < NumNodes
    /\ mainPc' = "err_setup"
    /\ UNCHANGED << created, loop, peers, transactions, mutex, inflight,
                    meshed, seen, extEvents, lastEvent >>

\* The message broadcast_transaction builds and serialises.
BroadcastData(bytes) ==
    Envelope(Base64Encode(bytes), PeerIdOf(Broadcaster), Now)

\* The blockhash fetched after the publish: the Err comes back with the
\* message already out.
BroadcastBlockhashErrAfterPublish ==
    /\ UNCHANGED directVars
    /\ mainPc = "broadcast"
    /\ mainPc' = "err_blockhash"
    /\ \E bytes \in TxBytes, M \in SUBSET MeshCandidates :
          /\ M # {}
          /\ inflight' = [n \in Nodes |->
                            IF n \in M
                            THEN Append(inflight[n], BroadcastData(bytes))
                            ELSE inflight[n]]
          /\ meshed' = M
    /\ UNCHANGED << created, loop, peers, transactions, mutex, seen,
                    extEvents, lastEvent >>

\* rpc_client.get_latest_blockhash()? is Err.
BroadcastBlockhashErr ==
    /\ UNCHANGED directVars
    /\ mainPc = "broadcast"
    /\ mainPc' = "err_blockhash"
    /\ UNCHANGED << created, loop, peers, transactions, mutex, inflight,
                    meshed, seen, extEvents, lastEvent >>

\* duration_since(UNIX_EPOCH)? is Err.
BroadcastClockErr ==
    /\ UNCHANGED directVars
    /\ mainPc = "broadcast"
    /\ mainPc' = "err_clock"
    /\ UNCHANGED << created, loop, peers, transactions, mutex, inflight,
                    meshed, seen, extEvents, lastEvent >>

\* gossipsub.publish(..)? is Err.
BroadcastPublishErr ==
    /\ UNCHANGED directVars
    /\ mainPc = "broadcast"
    /\ mainPc' = "err_publish"
    /\ UNCHANGED << created, loop, peers, transactions, mutex, inflight,
                    meshed, seen, extEvents, lastEvent >>

\* A broadcaster that also files its own transaction in its own table.
BroadcastOkStoresLocally ==
    /\ UNCHANGED directVars
    /\ mainPc = "broadcast"
    /\ \E bytes \in TxBytes, M \in SUBSET MeshCandidates :
          /\ inflight' = [n \in Nodes |->
                            IF n \in M
                            THEN Append(inflight[n], BroadcastData(bytes))
                            ELSE inflight[n]]
          /\ meshed' = M
          /\ peers' = [peers EXCEPT
                         ![Broadcaster] = TableAppend(@, PeerIdOf(Broadcaster),
                                                      Base64Encode(bytes))]
    /\ mainPc' = "join"
    /\ UNCHANGED << created, loop, transactions, mutex, seen,
                    extEvents, lastEvent >>

\* broadcast_transaction returns Ok: the channel took the message for the
\* nodes M of this process that are meshed on the topic.
BroadcastOk ==
    /\ UNCHANGED directVars
    /\ mainPc = "broadcast"
    /\ \E bytes \in TxBytes, M \in SUBSET MeshCandidates :
          /\ inflight' = [n \in Nodes |->
                            IF n \in M
                            THEN Append(inflight[n], BroadcastData(bytes))
                            ELSE inflight[n]]
          /\ meshed' = M
    /\ mainPc' = "join"
    /\ UNCHANGED << created, loop, peers, transactions, mutex, seen,
                    extEvents, lastEvent >>

\* The event loops awaited before the broadcast is made.
RunNetworkEarly ==
    /\ UNCHANGED directVars
    /\ mainPc = "broadcast"
    /\ mainPc' = "run"
    /\ loop' = [n \in Nodes |-> "running"]
    /\ UNCHANGED << created, peers, transactions, mutex, inflight, meshed,
                    seen, extEvents, lastEvent >>

\* event_loop_futures.await: join_all polls every event loop.
RunNetwork ==
    /\ UNCHANGED directVars
    /\ mainPc = "join"
    /\ mainPc' = "run"
    /\ loop' = [n \in Nodes |-> "running"]
    /\ UNCHANGED << created, peers, transactions, mutex, inflight, meshed,
                    seen, extEvents, lastEvent >>

(***************************************************************************)
(* The event loop of node n: one action per arm of its match.              *)
(***************************************************************************)
\* Events the loops have consumed: those of the environment and the
\* published messages already handed over.
Delivered == Cardinality({ n \in meshed : inflight[n] = << >> })

Consumed == extEvents + Delivered

\* An event loop spawned by Node::new: polled from the moment it is built.
PollingSpawned(n) == loop[n] \in { "idle", "running" }

Polling(n) == mainPc = "run" /\ loop[n] = "running"

Event(n, kind) == [seq |-> Consumed + 1, node |-> n, kind |-> kind]

\* A discovery arm that gives the discovered peer a key in the table.
MdnsDiscoveredRecords(n) ==
    /\ UNCHANGED directVars
    /\ mainPc = "run" /\ loop[n] = "running"
    /\ extEvents < MaxEvents
    /\ extEvents' = extEvents + 1
    /\ lastEvent' = [seq |-> extEvents + 1
                               + Cardinality({ m \in meshed : inflight[m] = << >> }),
                     node |-> n, kind |-> "mdns_discovered"]
    /\ peers' = [peers EXCEPT ![n] = IF "peerA" \in DOMAIN @ THEN @
                                      ELSE @ @@ ("peerA" :> << >>)]
    /\ UNCHANGED << mainPc, created, loop, transactions, mutex,
                    inflight, meshed, seen >>

\* NodeBehaviourEvent::Mdns(mdns::Event::Discovered(peers)): printed.
MdnsDiscovered(n) ==
    /\ UNCHANGED directVars
    /\ Polling(n)
    /\ extEvents < MaxEvents
    /\ extEvents' = extEvents + 1
    /\ lastEvent' = Event(n, "mdns_discovered")
    /\ UNCHANGED << mainPc, created, loop, peers, transactions, mutex,
                    inflight, meshed, seen >>

\* Any other NodeBehaviourEvent: the _ => {} arm.
OtherBehaviourEvent(n) ==
    /\ UNCHANGED directVars
    /\ Polling(n)
    /\ extEvents < MaxEvents
    /\ extEvents' = extEvents + 1
    /\ lastEvent' = Event(n, "behaviour_other")
    /\ UNCHANGED << mainPc, created, loop, peers, transactions, mutex,
                    inflight, meshed, seen >>

\* A SwarmEvent that is not SwarmEvent::Behaviour: the if let does not match.
OtherSwarmEvent(n) ==
    /\ UNCHANGED directVars
    /\ Polling(n)
    /\ extEvents < MaxEvents
    /\ extEvents' = extEvents + 1
    /\ lastEvent' = Event(n, "swarm_other")
    /\ UNCHANGED << mainPc, created, loop, peers, transactions, mutex,
                    inflight, meshed, seen >>

\* The panic of an event loop unwinds through join_all and main: the guard
\* is dropped while panicking, which poisons the mutex, and every event
\* loop of the process stops.
Panic(n) ==
    /\ mutex' = [mutex EXCEPT ![n] = "poisoned"]
    /\ mainPc' = "panicked"
    /\ loop' = [m \in Nodes |-> "terminated"]

\* NodeBehaviourEvent::Gossipsub(gossipsub::Event::Message { message, .. })
\* with the message it carries.
HandleGossip(n, message) ==
    LET r == FromSlice(message.data)
        t == r.msg.transaction
        s == TableKey(message, r.msg)
        dec == Decoded[t]
    IN  IF ~r.ok
        THEN UNCHANGED << mainPc, loop, peers, transactions, mutex, seen >>
        ELSE /\ seen' = [seen EXCEPT ![n] = Append(@, [sender |-> r.msg.sender,
                                                        transaction |-> t])]
             /\ IF mutex[n] = "poisoned"
                THEN \* distributed_table.lock().unwrap() panics
                     /\ Panic(n)
                     /\ UNCHANGED << peers, transactions >>
                ELSE /\ peers' = [peers EXCEPT ![n] = TableAppend(@, s, t)]
                     /\ IF UnwrapPanics(dec)
                        THEN /\ Panic(n)
                             /\ UNCHANGED transactions
                        ELSE /\ transactions' =
                                  [transactions EXCEPT
                                     ![n] = TableInsert(@, HexEncode(dec.bytes), t)]
                             /\ UNCHANGED << mainPc, loop, mutex >>

\* A message of a peer outside this process arrives at node n.
GossipExternal(n) ==
    /\ UNCHANGED directVars
    /\ Polling(n)
    /\ extEvents < MaxEvents
    /\ extEvents' = extEvents + 1
    /\ lastEvent' = Event(n, "gossip_message")
    /\ \E d \in ExternalData, src \in Sources : HandleGossip(n, Message(d, src))
    /\ UNCHANGED << created, inflight, meshed >>

\* The channel hands node n the message the broadcaster published.
GossipDeliver(n) ==
    /\ UNCHANGED directVars
    /\ Polling(n)
    /\ inflight[n] # << >>
    /\ inflight' = [inflight EXCEPT ![n] = Tail(@)]
    /\ lastEvent' = Event(n, "gossip_message")
    /\ HandleGossip(n, Message(Head(inflight[n]), PeerIdOf(Broadcaster)))
    /\ UNCHANGED << created, meshed, extEvents >>

Next ==
    \/ NodeNewOk
    \/ NodeNewErr
    \/ BroadcastBlockhashErr
    \/ BroadcastClockErr
    \/ BroadcastPublishErr
    \/ BroadcastOk
    \/ RunNetwork
    \/ \E n \in Nodes : MdnsDiscovered(n)
    \/ \E n \in Nodes : OtherBehaviourEvent(n)
    \/ \E n \in Nodes : OtherSwarmEvent(n)
    \/ \E n \in Nodes : GossipExternal(n)
    \/ \E n \in Nodes : GossipDeliver(n)

Spec == Init /\ [][Next]_vars

\* join_all polls every event loop for as long as the process lives, and the
\* channel hands over what it accepted.
FairSpec ==
    /\ Spec
    /\ WF_vars(RunNetwork)
    /\ \A n \in Nodes : WF_vars(GossipDeliver(n))

(***************************************************************************)
(* The direct variant: main, connect_to_peer, handle_connection.           *)
(***************************************************************************)
\* broadcast::channel(16): main drops the Receiver the call returns and no
\* task calls subscribe, so the Sender has no receiver.
Subscribers == {}

\* The process lives while main is in its accept loop.
Alive == directMain = "accept"

\* The connections whose stream is open.
OpenConns ==
    { k \in Tasks : taskPc[k] \notin { "none", "connect", "failed", "closed" } }

\* A Mutex that hands out its guard while another task holds one.
LockAlwaysFree(holder) == TRUE

\* state.lock().await returns when no task holds the guard.
LockFree(holder) == holder = 0

\* state.peers.contains(&addr)
Contains(q, a) == \E i \in 1..Len(q) : q[i] = a

\* state.transactions.entry(from).or_default().push(transaction)
StorePush(m, tx) ==
    IF tx.from \in DOMAIN m THEN [m EXCEPT ![tx.from] = Append(@, tx)]
    ELSE m @@ (tx.from :> << tx >>)

\* The port argument does not parse, or TcpListener::bind fails: main
\* returns the Err.
DirectStartErr ==
    /\ directMain = "start"
    /\ directMain' = "exited"
    /\ UNCHANGED << spawned, taskPc, taskAddr, taskTx, stateLock,
                    stateTransactions, statePeers, reads, lastSend >>
    /\ UNCHANGED simVars

\* main has bound its listener.
DirectStartOk ==
    /\ directMain = "start"
    /\ directMain' = "accept"
    /\ UNCHANGED << spawned, taskPc, taskAddr, taskTx, stateLock,
                    stateTransactions, statePeers, reads, lastSend >>
    /\ UNCHANGED simVars

\* tokio::spawn(connect_to_peer(addr, ..)).  main makes the call once, for
\* its peer argument; here any number of calls up to MaxTasks is made, for
\* any of the addresses.
SpawnConnect ==
    /\ Alive
    /\ spawned < MaxTasks
    /\ spawned' = spawned + 1
    /\ \E a \in Addrs :
          /\ taskPc' = [taskPc EXCEPT ![spawned + 1] = "connect"]
          /\ taskAddr' = [taskAddr EXCEPT ![spawned + 1] = a]
    /\ UNCHANGED << directMain, taskTx, stateLock, stateTransactions,
                    statePeers, reads, lastSend >>
    /\ UNCHANGED simVars

\* listener.accept() gives a socket: main spawns handle_connection on it.
Accept ==
    /\ Alive
    /\ spawned < MaxTasks
    /\ spawned' = spawned + 1
    /\ taskPc' = [taskPc EXCEPT ![spawned + 1] = "read"]
    /\ UNCHANGED << directMain, taskAddr, taskTx, stateLock, stateTransactions,
                    statePeers, reads, lastSend >>
    /\ UNCHANGED simVars

\* listener.accept().await? is Err: main returns and the runtime drops
\* every task.
AcceptErr ==
    /\ Alive
    /\ directMain' = "exited"
    /\ UNCHANGED << spawned, taskPc, taskAddr, taskTx, stateLock,
                    stateTransactions, statePeers, reads, lastSend >>
    /\ UNCHANGED simVars

\* TcpStream::connect(&addr) is Ok(stream).
ConnectOk(k) ==
    /\ Alive
    /\ taskPc[k] = "connect"
    /\ taskPc' = [taskPc EXCEPT ![k] = "peer_lock"]
    /\ UNCHANGED << directMain, spawned, taskAddr, taskTx, stateLock,
                    stateTransactions, statePeers, reads, lastSend >>
    /\ UNCHANGED simVars

\* TcpStream::connect(&addr) is Err(e): printed, the task ends.
ConnectErr(k) ==
    /\ Alive
    /\ taskPc[k] = "connect"
    /\ taskPc' = [taskPc EXCEPT ![k] = "failed"]
    /\ UNCHANGED << directMain, spawned, taskAddr, taskTx, stateLock,
                    stateTransactions, statePeers, reads, lastSend >>
    /\ UNCHANGED simVars

\* let mut state = state.lock().await in connect_to_peer
PeerLock(k) ==
    /\ Alive
    /\ taskPc[k] = "peer_lock"
    /\ LockFree(stateLock)
    /\ stateLock' = k
    /\ taskPc' = [taskPc EXCEPT ![k] = "peer_check"]
    /\ UNCHANGED << directMain, spawned, taskAddr, taskTx, stateTransactions,
                    statePeers, reads, lastSend >>
    /\ UNCHANGED simVars

\* if !state.peers.contains(&addr)
PeerCheck(k) ==
    /\ Alive
    /\ taskPc[k] = "peer_check"
    /\ taskPc' = [taskPc EXCEPT ![k] = IF Contains(statePeers, taskAddr[k])
                                       THEN "peer_unlock" ELSE "peer_push"]
    /\ UNCHANGED << directMain, spawned, taskAddr, taskTx, stateLock,
                    stateTransactions, statePeers, reads, lastSend >>
    /\ UNCHANGED simVars

\* state.peers.push(addr.clone())
PeerPush(k) ==
    /\ Alive
    /\ taskPc[k] = "peer_push"
    /\ statePeers' = Append(statePeers, taskAddr[k])
    /\ taskPc' = [taskPc EXCEPT ![k] = "peer_unlock"]
    /\ UNCHANGED << directMain, spawned, taskAddr, taskTx, stateLock,
                    stateTransactions, reads, lastSend >>
    /\ UNCHANGED simVars

\* The guard goes out of scope; connect_to_peer calls handle_connection.
PeerUnlock(k) ==
    /\ Alive
    /\ taskPc[k] = "peer_unlock"
    /\ stateLock' = 0
    /\ taskPc' = [taskPc EXCEPT ![k] = "read"]
    /\ UNCHANGED << directMain, spawned, taskAddr, taskTx, stateTransactions,
                    statePeers, reads, lastSend >>
    /\ UNCHANGED simVars

\* socket.read(&mut buffer) is Ok(0) or Err: the handler returns.
HandlerClose(k) ==
    /\ Alive
    /\ taskPc[k] = "read"
    /\ reads < MaxReads
    /\ reads' = reads + 1
    /\ taskPc' = [taskPc EXCEPT ![k] = "closed"]
    /\ UNCHANGED << directMain, spawned, taskAddr, taskTx, stateLock,
                    stateTransactions, statePeers, lastSend >>
    /\ UNCHANGED simVars

\* socket.read gives bytes that are no Transaction: the handler reads on.
HandlerSkip(k) ==
    /\ Alive
    /\ taskPc[k] = "read"
    /\ reads < MaxReads
    /\ reads' = reads + 1
    /\ UNCHANGED << directMain, spawned, taskPc, taskAddr, taskTx, stateLock,
                    stateTransactions, statePeers, lastSend >>
    /\ UNCHANGED simVars

\* socket.read gives bytes that serde_json::from_slice parses.
HandlerParse(k) ==
    /\ Alive
    /\ taskPc[k] = "read"
    /\ reads < MaxReads
    /\ reads' = reads + 1
    /\ \E tx \in Received : taskTx' = [taskTx EXCEPT ![k] = tx]
    /\ taskPc' = [taskPc EXCEPT ![k] = "store_lock"]
    /\ UNCHANGED << directMain, spawned, taskAddr, stateLock,
                    stateTransactions, statePeers, lastSend >>
    /\ UNCHANGED simVars

\* let mut state = state.lock().await in handle_connection
HandlerLock(k) ==
    /\ Alive
    /\ taskPc[k] = "store_lock"
    /\ LockFree(stateLock)
    /\ stateLock' = k
    /\ taskPc' = [taskPc EXCEPT ![k] = "store"]
    /\ UNCHANGED << directMain, spawned, taskAddr, taskTx, stateTransactions,
                    statePeers, reads, lastSend >>
    /\ UNCHANGED simVars

\* The push, let _ = tx.send(transaction), and the guard going out of
\* scope.  send gives the value to the receivers the channel has.
HandlerStore(k) ==
    /\ Alive
    /\ taskPc[k] = "store"
    /\ stateTransactions' = StorePush(stateTransactions, taskTx[k])
    /\ lastSend' = [task |-> k, tx |-> taskTx[k],
                    others |-> OpenConns \ { k }, reached |-> Subscribers]
    /\ stateLock' = 0
    /\ taskTx' = [taskTx EXCEPT ![k] = NoTransaction]
    /\ taskPc' = [taskPc EXCEPT ![k] = "read"]
    /\ UNCHANGED << directMain, spawned, taskAddr, statePeers, reads >>
    /\ UNCHANGED simVars

NextDirect ==
    \/ DirectStartErr
    \/ DirectStartOk
    \/ SpawnConnect
    \/ Accept
    \/ AcceptErr
    \/ \E k \in Tasks : ConnectOk(k)
    \/ \E k \in Tasks : ConnectErr(k)
    \/ \E k \in Tasks : PeerLock(k)
    \/ \E k \in Tasks : PeerCheck(k)
    \/ \E k \in Tasks : PeerPush(k)
    \/ \E k \in Tasks : PeerUnlock(k)
    \/ \E k \in Tasks : HandlerClose(k)
    \/ \E k \in Tasks : HandlerSkip(k)
    \/ \E k \in Tasks : HandlerParse(k)
    \/ \E k \in Tasks : HandlerLock(k)
    \/ \E k \in Tasks : HandlerStore(k)

SpecDirect == Init /\ [][NextDirect]_vars

(***************************************************************************)
(* Vocabulary of the properties.                                           *)
(***************************************************************************)
Decodable(t) == Decoded[t].ok

Hashes == [t \in Transactions |-> HexEncode(Decoded[t].bytes)]

HashOf(t) == Hashes[t]

Last(q) == q[Len(q)]

IsPrefix(a, b) == Len(a) <= Len(b) /\ SubSeq(b, 1, Len(a)) = a

Elems(q) == { q[i] : i \in 1..Len(q) }

Occurrences(q, x) == Cardinality({ i \in 1..Len(q) : q[i] = x })

\* The transactions of the envelopes of log that carry sender s, in order.
RECURSIVE FromSender(_, _)
FromSender(log, s) ==
    IF log = << >> THEN << >>
    ELSE IF Head(log).sender = s
         THEN << Head(log).transaction >> \o FromSender(Tail(log), s)
         ELSE FromSender(Tail(log), s)

AllSenders == Senders \cup { PeerIdOf(Broadcaster) }

\* What node n's list for sender s holds, the empty list if it has no key.
ListOf(n, s) == IF s \in DOMAIN peers[n] THEN peers[n][s] ELSE << >>

AllDecodable(log) == \A i \in 1..Len(log) : Decodable(log[i].transaction)

\* Node n's loop has just handled an envelope whose payload does not decode.
HandledUndecodable(n) ==
    /\ seen'[n] # seen[n]
    /\ ~Decodable(Last(seen'[n]).transaction)

\* C1: a gossip message whose envelope parses and whose transaction is not
\* base64 leaves both views of the node's table as they were.
C1_MalformedPayloadRejected ==
    [][\A n \in Nodes :
          HandledUndecodable(n) =>
              /\ peers'[n] = peers[n]
              /\ transactions'[n] = transactions[n]]_vars

\* Node n's loop consumes a gossip message event in this step.
ConsumesGossip(n) ==
    /\ lastEvent'.seq # lastEvent.seq
    /\ lastEvent'.node = n
    /\ lastEvent'.kind = "gossip_message"

\* C2: a running event loop is still running after any gossip message event
\* it consumes, whatever the message holds.
C2_LoopSurvivesIngestion ==
    [][\A n \in Nodes :
          (loop[n] = "running" /\ ConsumesGossip(n)) => loop'[n] = "running"]_vars

\* Every transaction appended to a list of node n has its entry in the
\* hash index of node n.
WholeTable(n) ==
    \A s \in DOMAIN peers[n] : \A t \in Elems(peers[n][s]) :
        /\ Decodable(t)
        /\ HashOf(t) \in DOMAIN transactions[n]
        /\ transactions[n][HashOf(t)] = t

\* C3: at no point between two events is a table left with a per-sender
\* append whose hash-index insert is missing.
C3_IngestionAtomic == \A n \in Nodes : WholeTable(n)

\* The envelopes of log are decodable, from pairwise distinct senders and
\* of pairwise distinct payloads.
DistinctValid(log) ==
    /\ AllDecodable(log)
    /\ \A i, j \in 1..Len(log) :
          i # j => /\ log[i].sender # log[j].sender
                   /\ log[i].transaction # log[j].transaction

\* C4: a node that has ingested K valid messages of K senders and K
\* payloads, in whatever order they and the other nodes' events came,
\* holds K sender keys of one element each and K hash entries.
C4_ConcurrentIngestion ==
    \A n \in Nodes :
        DistinctValid(seen[n]) =>
            /\ DOMAIN peers[n] = { seen[n][i].sender : i \in 1..Len(seen[n]) }
            /\ Cardinality(DOMAIN peers[n]) = Len(seen[n])
            /\ \A i \in 1..Len(seen[n]) :
                  /\ peers[n][seen[n][i].sender] = << seen[n][i].transaction >>
                  /\ transactions[n][HashOf(seen[n][i].transaction)]
                        = seen[n][i].transaction
            /\ Cardinality(DOMAIN transactions[n]) = Len(seen[n])

C4_Witness ==
    \E n \in Nodes : /\ Len(seen[n]) = 3
                     /\ DistinctValid(seen[n])
                     /\ \E m \in Nodes \ {n} : Len(seen[m]) >= 1

\* C5: the list a node keeps for a sender is the transactions of that
\* sender's messages in the order the node handled them, whatever other
\* senders' messages came in between.
C5_AppendOrder ==
    \A n \in Nodes : \A s \in AllSenders :
        (\A t \in Elems(FromSender(seen[n], s)) : Decodable(t)) =>
            /\ ListOf(n, s) = FromSender(seen[n], s)
            /\ s \in DOMAIN peers[n] <=> FromSender(seen[n], s) # << >>

C5_Witness ==
    \E n \in Nodes : \E s \in AllSenders :
        /\ Len(FromSender(seen[n], s)) = 2
        /\ \A t \in Elems(FromSender(seen[n], s)) : Decodable(t)
        /\ FromSender(seen[n], s)[1] # FromSender(seen[n], s)[2]
        /\ Len(seen[n]) = 3
        /\ seen[n][2].sender # s

\* The decodable payloads node n has handled.
HandledPayloads(n) ==
    { t \in { seen[n][i].transaction : i \in 1..Len(seen[n]) } : Decodable(t) }

\* C6: however often a decodable payload reaches a node, and from whichever
\* senders, the hash index holds one entry for it, and each sender's list
\* holds it once per message of that sender that carried it.
C6_DuplicatePolicy ==
    \A n \in Nodes :
        /\ \A t \in HandledPayloads(n) :
              /\ { h \in DOMAIN transactions[n] : transactions[n][h] = t }
                    = { HashOf(t) }
              /\ \A s \in AllSenders :
                    Occurrences(ListOf(n, s), t)
                        = Occurrences(seen[n], [sender |-> s, transaction |-> t])
        /\ Cardinality(DOMAIN transactions[n])
              = Cardinality({ Decoded[t].bytes : t \in HandledPayloads(n) })

C6_Witness ==
    \E n \in Nodes : \E t \in HandledPayloads(n) : \E s1, s2 \in AllSenders :
        /\ s1 # s2
        /\ Occurrences(seen[n], [sender |-> s1, transaction |-> t]) = 2
        /\ Occurrences(seen[n], [sender |-> s2, transaction |-> t]) = 1
        /\ Cardinality(DOMAIN transactions[n]) = 1

\* C7: once a node has handled a valid message of sender s and transaction
\* t, its hash index maps the lowercase hex of t's decoded bytes to t and t
\* is the last element of its list for s; the bytes 01 02 03 from peerA into
\* an empty table give the key "010203", the bytes ab cd the key "abcd".
C7_ValidIngest ==
    \A n \in Nodes :
        /\ (seen[n] # << >> /\ Decodable(Last(seen[n]).transaction)) =>
              LET t == Last(seen[n]).transaction
                  s == Last(seen[n]).sender
              IN  /\ HashOf(t) \in DOMAIN transactions[n]
                  /\ transactions[n][HashOf(t)] = t
                  /\ s \in DOMAIN peers[n]
                  /\ Last(peers[n][s]) = t
        /\ seen[n] = << [sender |-> "peerA", transaction |-> << "A", "Q", "I", "D" >>] >> =>
              /\ transactions[n] = ("010203" :> << "A", "Q", "I", "D" >>)
              /\ peers[n] = ("peerA" :> << << "A", "Q", "I", "D" >> >>)
        /\ seen[n] = << [sender |-> "peerB", transaction |-> << "q", "8", "0", "=" >>] >> =>
              /\ transactions[n] = ("abcd" :> << "q", "8", "0", "=" >>)
              /\ peers[n] = ("peerB" :> << << "q", "8", "0", "=" >> >>)

C7_Witness ==
    /\ seen[1] = << [sender |-> "peerA", transaction |-> << "A", "Q", "I", "D" >>] >>
    /\ Len(seen[2]) = 2
    /\ Decodable(Last(seen[2]).transaction)
    /\ mainPc = "run"

\* C8: every entry of a hash index is a payload that decodes, under the hex
\* of its decoded bytes.
C8_IndexDecodable ==
    \A n \in Nodes : \A h \in DOMAIN transactions[n] :
        /\ Decodable(transactions[n][h])
        /\ h = HashOf(transactions[n][h])

\* A node with entries in its index has handled a payload that does not
\* decode.
C8_Witness ==
    \E n \in Nodes :
        /\ seen[n] # << >>
        /\ ~Decodable(Last(seen[n]).transaction)
        /\ Cardinality(DOMAIN transactions[n]) >= 1

\* C9: no step removes a sender key, shortens or rewrites a sender's list,
\* or removes a hash key.
C9_TableGrowsOnly ==
    [][\A n \in Nodes :
          /\ \A s \in DOMAIN peers[n] :
                /\ s \in DOMAIN peers'[n]
                /\ IsPrefix(peers[n][s], peers'[n][s])
          /\ DOMAIN transactions[n] \subseteq DOMAIN transactions'[n]]_vars

C9_Witness ==
    \E n \in Nodes : \E s \in DOMAIN peers[n] :
        /\ Len(peers[n][s]) >= 2
        /\ Cardinality(DOMAIN peers[n]) >= 2
        /\ Cardinality(DOMAIN transactions[n]) >= 2

\* Node n's table holds the broadcaster's transaction under the
\* broadcaster's identity.
HoldsBroadcast(n) ==
    \E b \in TxBytes :
        /\ Base64Encode(b) \in Elems(ListOf(n, PeerIdOf(Broadcaster)))
        /\ HexEncode(b) \in DOMAIN transactions[n]
        /\ transactions[n][HexEncode(b)] = Base64Encode(b)

\* C10: every node that was meshed when the broadcaster published comes to
\* hold the broadcaster's transaction under the broadcaster's identity.
C10_BroadcastRoundTrip ==
    \A n \in Nodes : (n \in meshed) ~> HoldsBroadcast(n)

\* The same, unless the process has panicked: what holds of FairSpec.
BroadcastRoundTripUnlessPanic ==
    \A n \in Nodes : (n \in meshed) ~> (HoldsBroadcast(n) \/ mainPc = "panicked")

\* C11: after publish has failed, the node is still able to run: main
\* goes on to await the event loops, or they are running already.
C11_PublishFailureNonFatal ==
    mainPc = "err_publish" =>
        \/ ENABLED RunNetwork
        \/ \A n \in Nodes : loop[n] = "running"

\* No event loop has been polled, no event consumed and no table written.
NothingRan ==
    /\ lastEvent.seq = 0
    /\ \A n \in Nodes :
          /\ loop[n] \in { "none", "idle" }
          /\ peers[n] = EmptyMap
          /\ transactions[n] = EmptyMap
          /\ seen[n] = << >>

\* C12: once Node::new has failed, main has returned with a node missing,
\* and as long as a node is missing nothing runs: no loop is polled, no
\* event is consumed, no table is written.
C12_SetupErrorFatal ==
    /\ mainPc = "err_setup" => (created < NumNodes /\ ~ENABLED Next)
    /\ created < NumNodes => NothingRan

C12_Witness == mainPc = "err_setup" /\ created = 2 /\ loop[1] = "idle"

\* C13: when the blockhash fetch has failed, main has the Err and stops
\* there; no message was handed to the channel and no table was written.
C13_LedgerFailure ==
    mainPc = "err_blockhash" =>
        /\ meshed = {}
        /\ \A n \in Nodes : inflight[n] = << >>
        /\ NothingRan
        /\ ~ENABLED Next

C13_Witness == mainPc = "err_blockhash" /\ created = NumNodes

\* A step in which some event loop consumes an event of one of these kinds.
ConsumesKind(kinds) ==
    /\ lastEvent'.seq # lastEvent.seq
    /\ lastEvent'.kind \in kinds

\* C14: a discovery event, another behaviour event and another swarm event
\* leave every table as it was; a step that changes a table consumes a
\* gossip message.
C14_OnlyGossipMutates ==
    [][/\ ConsumesKind({ "mdns_discovered", "behaviour_other", "swarm_other" })
            => UNCHANGED table
       /\ ~UNCHANGED table => ConsumesKind({ "gossip_message" })]_vars

\* Node 1 holds the broadcast and has consumed a discovery event after
\* it, the second event of the environment that carried no envelope.
C14_Witness ==
    /\ lastEvent.kind = "mdns_discovered"
    /\ lastEvent.node = 1
    /\ extEvents = 2
    /\ HoldsBroadcast(1)
    /\ \A n \in Nodes : Len(seen[n]) = IF n = 1 THEN 1 ELSE 0

\* C15: a table changes only in a step in which its own node's running
\* loop consumes a gossip message; the broadcast and the other nodes'
\* ingestions leave it as it was.
C15_TablesPerNode ==
    [][\A n \in Nodes :
          (peers'[n] # peers[n] \/ transactions'[n] # transactions[n]) =>
              /\ loop[n] = "running"
              /\ ConsumesGossip(n)]_vars

C15_Witness ==
    /\ HoldsBroadcast(1)
    /\ 2 \in meshed
    /\ peers[2] = EmptyMap
    /\ peers[Broadcaster] = EmptyMap
    /\ peers[3] # EmptyMap

\* The lengths of the lists of the senders S of node n, added up.
RECURSIVE ListsLen(_, _)
ListsLen(n, S) ==
    IF S = {} THEN 0
    ELSE LET s == CHOOSE x \in S : TRUE
         IN  Len(peers[n][s]) + ListsLen(n, S \ {s})

\* C19: every payload the hash index of a node holds is in one of the
\* node's per-sender lists, and the index has no more entries than the
\* lists have elements.
C19_ViewsConsistent ==
    \A n \in Nodes :
        /\ \A h \in DOMAIN transactions[n] :
              \E s \in DOMAIN peers[n] : transactions[n][h] \in Elems(peers[n][s])
        /\ Cardinality(DOMAIN transactions[n]) <= ListsLen(n, DOMAIN peers[n])

C19_Witness ==
    \E n \in Nodes :
        /\ Cardinality(DOMAIN transactions[n]) = 2
        /\ ListsLen(n, DOMAIN peers[n]) = 3
        /\ Cardinality(DOMAIN peers[n]) = 2

ErrStates == { "err_setup", "err_blockhash", "err_clock", "err_publish" }

SeenSenders(n) == { seen[n][i].sender : i \in 1..Len(seen[n]) }

\* C18: two nodes that have parsed the same sequence of (sender,
\* transaction) pairs hold the same table, whatever the timestamps of the
\* envelopes and whichever peers published them; and the keys of the
\* per-sender view are sender strings of parsed envelopes.
C18_IngestionIgnoresOrigin ==
    /\ \A n1, n2 \in Nodes :
          seen[n1] = seen[n2] =>
              (peers[n1] = peers[n2] /\ transactions[n1] = transactions[n2])
    /\ \A n \in Nodes : DOMAIN peers[n] = SeenSenders(n)

\* Node 1 has ingested the broadcaster's envelope (timestamp Now, published
\* by the broadcaster); node 3, which is not meshed, has ingested the copy a
\* remote peer published under another timestamp.
C18_Witness ==
    /\ HoldsBroadcast(1)
    /\ 3 \notin meshed
    /\ seen[1] = seen[3]
    /\ Len(seen[3]) = 1
    /\ peers[1] = peers[3]
    /\ transactions[1] = transactions[3]
    /\ peers[1] # EmptyMap

\* C16: every transaction a handler of the direct variant has stored and
\* sent was given by the channel to every other connection open then.
C16_StoredIsForwarded == lastSend.others \subseteq lastSend.reached

\* C17: in every step of the direct variant the peers list holds no
\* address twice, a connect that fails leaves the list as it was, and a
\* task whose connect failed does nothing more.
C17_PeersNoDuplicates ==
    [][/\ \A i, j \in 1..Len(statePeers') :
             i # j => statePeers'[i] # statePeers'[j]
       /\ \A k \in Tasks :
             /\ (taskPc[k] = "connect" /\ taskPc'[k] = "failed") =>
                    statePeers' = statePeers
             /\ taskPc[k] = "failed" => taskPc'[k] = "failed"]_vars

\* Two calls for one address have both gone through the check and a call
\* for another address has failed.
C17_Witness ==
    /\ taskPc[1] = "read" /\ taskPc[2] = "read" /\ taskPc[3] = "failed"
    /\ taskAddr[1] = taskAddr[2]
    /\ taskAddr[1] \in Addrs
    /\ taskAddr[3] \in Addrs \ { taskAddr[1] }
    /\ statePeers = << taskAddr[1] >>

=============================================================================
